---- MODULE Spec2Model ----
(***************************************************************************)
(* A model of scripts/generate_downloads.py: one run of main(), which      *)
(* resolves a helm version, fetches one checksum per platform, renders the *)
(* download_scripts block and writes it back into setup.cfg.               *)
(*                                                                         *)
(* Text is modelled as a sequence of atoms.  An atom is either a single    *)
(* character (the characters of versions, tags and response bodies) or a   *)
(* literal fragment (a piece of a URL pattern or of the template, a        *)
(* digest); concatenation of text is \o.  A text of several lines (the     *)
(* template and what is made of it) is the sequence of its lines, the text *)
(* cut at every newline.                                                   *)
(***************************************************************************)
EXTENDS Integers, Sequences, FiniteSets, TLC

(* ------------------------------ bounds --------------------------------- *)

\* longest version string of setup.cfg that is enumerated
MaxVerLen == 3

\* longest --tag argument that is enumerated
MaxTagLen == 1

\* the characters versions and tags are made of: the canonical prefix, the
\* separator and one other character
Chars == {"v", "-", "3"}

RECURSIVE StringsUpTo(_)
StringsUpTo(n) ==
    IF n = 0 THEN {<<>>}
    ELSE LET shorter == StringsUpTo(n - 1)
         IN  shorter \cup {Append(s, c) : s \in shorter, c \in Chars}

(* --------------------------- Python values ----------------------------- *)

\* a str value and the None value (args.tag and Option.value are str | None)
Str(s) == [type |-> "str", s |-> s]
None == [type |-> "NoneType", s |-> <<>>]

\* isinstance(x, str)
IsInstanceStr(x) == x.type = "str"

\* truthiness of a str | None value: None and '' are falsy
Truthy(x) == x.type = "str" /\ x.s # <<>>

\* str.removeprefix(prefix) for a one-character prefix
RemovePrefix(s, prefix) ==
    IF Len(s) >= 1 /\ s[1] = prefix THEN Tail(s) ELSE s

\* str.split(sep) for a one-character separator: the list of fields
\* the k-th smallest element of a finite set of integers
Nth(S, k) == CHOOSE i \in S : Cardinality({j \in S : j < i}) = k - 1

Split(s, sep) ==
    LET cuts == {i \in 1..Len(s) : s[i] = sep}
        n == Cardinality(cuts)
        first(k) == IF k = 1 THEN 1 ELSE Nth(cuts, k - 1) + 1
        last(k) == IF k = n + 1 THEN Len(s) ELSE Nth(cuts, k) - 1
    IN  [k \in 1..(n + 1) |-> SubSeq(s, first(k), last(k))]

\* whitespace characters of str.split() without a separator
Whitespace == {" ", "\n", "\t"}

\* str.split(): the list of maximal runs of non-whitespace characters
SplitWs(s) ==
    LET solid(i) == s[i] \notin Whitespace
        starts == {i \in 1..Len(s) : solid(i) /\ (i = 1 \/ ~solid(i - 1))}
        ends == {i \in 1..Len(s) : solid(i) /\ (i = Len(s) \/ ~solid(i + 1))}
    IN  [k \in 1..Cardinality(starts) |-> SubSeq(s, Nth(starts, k), Nth(ends, k))]

\* pattern % arg for a str argument: every %s of the pattern becomes arg
RECURSIVE Format(_, _)
Format(pattern, arg) ==
    IF pattern = <<>> THEN <<>>
    ELSE IF Head(pattern) = "%s" THEN arg \o Format(Tail(pattern), arg)
    ELSE <<Head(pattern)>> \o Format(Tail(pattern), arg)

(* ---------------------------- URL_PATTERNS ----------------------------- *)

\* the keys of URL_PATTERNS in insertion order, the order of .items()
Platforms ==
    << "linux-arm", "linux-arm64", "linux-riscv64", "linux-386", "linux-amd64",
       "linux-ppc64le", "linux-s390x", "darwin-arm64", "darwin-amd64",
       "windows-arm64", "windows-amd64" >>

PlatformSet == {Platforms[i] : i \in 1..Len(Platforms)}

URL_PATTERNS ==
    ("linux-arm" :> <<"https://get.helm.sh/helm-", "%s", "-", "linux-arm", ".tar.gz">>) @@
    ("linux-arm64" :> <<"https://get.helm.sh/helm-", "%s", "-", "linux-arm64", ".tar.gz">>) @@
    ("linux-riscv64" :> <<"https://get.helm.sh/helm-", "%s", "-", "linux-riscv64", ".tar.gz">>) @@
    ("linux-386" :> <<"https://get.helm.sh/helm-", "%s", "-", "linux-386", ".tar.gz">>) @@
    ("linux-amd64" :> <<"https://get.helm.sh/helm-", "%s", "-", "linux-amd64", ".tar.gz">>) @@
    ("linux-ppc64le" :> <<"https://get.helm.sh/helm-", "%s", "-", "linux-ppc64le", ".tar.gz">>) @@
    ("linux-s390x" :> <<"https://get.helm.sh/helm-", "%s", "-", "linux-s390x", ".tar.gz">>) @@
    ("darwin-arm64" :> <<"https://get.helm.sh/helm-", "%s", "-", "darwin-arm64", ".tar.gz">>) @@
    ("darwin-amd64" :> <<"https://get.helm.sh/helm-", "%s", "-", "darwin-amd64", ".tar.gz">>) @@
    ("windows-arm64" :> <<"https://get.helm.sh/helm-", "%s", "-", "windows-arm64", ".zip">>) @@
    ("windows-amd64" :> <<"https://get.helm.sh/helm-", "%s", "-", "windows-amd64", ".zip">>)

(* ------------------------- the template (73-158) ----------------------- *)

\* the indentation of the template's lines in the source: eight spaces
INDENT == "        "

Section(header, markers, key, extract, extract_path) ==
    [header |-> header, markers |-> markers, key |-> key, extract |-> extract,
     extract_path |-> extract_path]

\* the sections of the f-string in the order they are written
TEMPLATE ==
    << Section("[helm]", <<"marker = sys_platform == \"linux\" and platform_machine == \"armv6hf\"",
                          "marker = sys_platform == \"linux\" and platform_machine == \"armv7l\"">>,
               "linux-arm", "tar", <<"linux-arm", "/helm">>),
       Section("[helm]", <<"marker = sys_platform == \"linux\" and platform_machine == \"aarch64\"">>,
               "linux-arm64", "tar", <<"linux-arm64", "/helm">>),
       Section("[helm]", <<"marker = sys_platform == \"linux\" and platform_machine == \"riscv64\"">>,
               "linux-riscv64", "tar", <<"linux-riscv64", "/helm">>),
       Section("[helm]", <<"marker = sys_platform == \"linux\" and platform_machine == \"i386\"",
                          "marker = sys_platform == \"linux\" and platform_machine == \"i686\"">>,
               "linux-386", "tar", <<"linux-386", "/helm">>),
       Section("[helm]", <<"marker = sys_platform == \"linux\" and platform_machine == \"x86_64\"">>,
               "linux-amd64", "tar", <<"linux-amd64", "/helm">>),
       Section("[helm]", <<"marker = sys_platform == \"linux\" and platform_machine == \"ppc64\"",
                          "marker = sys_platform == \"linux\" and platform_machine == \"ppc64le\"">>,
               "linux-ppc64le", "tar", <<"linux-ppc64le", "/helm">>),
       Section("[helm]", <<"marker = sys_platform == \"linux\" and platform_machine == \"s390x\"">>,
               "linux-s390x", "tar", <<"linux-s390x", "/helm">>),
       Section("[helm]", <<"marker = sys_platform == \"darwin\" and platform_machine == \"arm64\"">>,
               "darwin-arm64", "tar", <<"darwin-arm64", "/helm">>),
       Section("[helm]", <<"marker = sys_platform == \"darwin\" and platform_machine == \"x86_64\"">>,
               "darwin-amd64", "tar", <<"darwin-amd64", "/helm">>),
       Section("[helm.exe]", <<"marker = sys_platform == \"win32\" and platform_machine == \"AMD64\"",
                              "marker = sys_platform == \"cygwin\" and platform_machine == \"x86_64\"">>,
               "windows-amd64", "zip", <<"windows-amd64", "/helm.exe">>),
       Section("[helm.exe]", <<"marker = sys_platform == \"win32\" and platform_machine == \"ARM64\"",
                              "marker = sys_platform == \"cygwin\" and platform_machine == \"aarch64\"">>,
               "windows-arm64", "zip", <<"windows-arm64", "/helm.exe">>) >>

\* the platform keys the template looks up in data, in evaluation order
TemplateKeys == [i \in 1..Len(TEMPLATE) |-> TEMPLATE[i].key]

\* SectionText with the sha256 line still reading the first section's key, as
\* after copying the first block without editing that line
SectionTextStaleKey(sec, data) ==
    << <<INDENT, sec.header>>, <<INDENT, "group = helm-binary">> >>
    \o [i \in 1..Len(sec.markers) |-> <<INDENT, sec.markers[i]>>]
    \o << <<INDENT, "url = ">> \o data[sec.key].url,
          <<INDENT, "sha256 = ">> \o data[TEMPLATE[1].key].sha256,
          <<INDENT, "extract = ", sec.extract>>,
          <<INDENT, "extract_path = ">> \o sec.extract_path >>

\* the lines of one section of the f-string, every line indented
SectionText(sec, data) ==
    << <<INDENT, sec.header>>, <<INDENT, "group = helm-binary">> >>
    \o [i \in 1..Len(sec.markers) |-> <<INDENT, sec.markers[i]>>]
    \o << <<INDENT, "url = ">> \o data[sec.key].url,
          <<INDENT, "sha256 = ">> \o data[sec.key].sha256,
          <<INDENT, "extract = ", sec.extract>>,
          <<INDENT, "extract_path = ">> \o sec.extract_path >>

RECURSIVE SectionsText(_, _)
SectionsText(i, data) ==
    IF i > Len(TEMPLATE) THEN <<>>
    ELSE SectionText(TEMPLATE[i], data) \o SectionsText(i + 1, data)

\* the value of the f-string: the empty line after the opening quotes, the
\* sections, and the indentation before the closing quotes
FString(data) == << <<>> >> \o SectionsText(1, data) \o << <<INDENT>> >>

IsSpace(atom) == atom \in Whitespace \cup {INDENT}

IsBlankLine(line) == \A i \in 1..Len(line) : IsSpace(line[i])

\* how many indentation atoms a line starts with
LeadingIndent(line) ==
    LET other == {i \in 1..Len(line) : line[i] # INDENT}
    IN  IF other = {} THEN Len(line) ELSE Nth(other, 1) - 1

\* textwrap.dedent: the lines lose their common leading whitespace; a line of
\* whitespace only becomes empty and does not count for the margin
Dedent(text) ==
    LET solid == {i \in 1..Len(text) : ~IsBlankLine(text[i])}
        margin == IF solid = {} THEN 0
                  ELSE CHOOSE m \in {LeadingIndent(text[i]) : i \in solid} :
                           \A i \in solid : m <= LeadingIndent(text[i])
    IN  [i \in 1..Len(text) |->
            IF i \in solid THEN SubSeq(text[i], margin + 1, Len(text[i])) ELSE <<>>]

\* str.strip(): the whitespace before the first and after the last character
\* that is none is removed, newlines included
Strip(text) ==
    LET solid == {i \in 1..Len(text) : ~IsBlankLine(text[i])}
        first == Nth(solid, 1)
        last == Nth(solid, Cardinality(solid))
        lstrip(line) == SubSeq(line, Nth({j \in 1..Len(line) : ~IsSpace(line[j])}, 1),
                               Len(line))
        rstrip(line) ==
            LET keep == {j \in 1..Len(line) : ~IsSpace(line[j])}
            IN  SubSeq(line, 1, Nth(keep, Cardinality(keep)))
    IN  IF solid = {} THEN << <<>> >>
        ELSE [k \in 1..(last - first + 1) |->
                 LET line == text[first + k - 1]
                     left == IF k = 1 THEN lstrip(line) ELSE line
                 IN  IF k = last - first + 1 THEN rstrip(left) ELSE left]

\* str.splitlines(): the lines of the text; the empty text has none, and a
\* final newline starts no further line
SplitLines(text) ==
    IF text = << <<>> >> THEN <<>>
    ELSE IF text[Len(text)] = <<>> THEN SubSeq(text, 1, Len(text) - 1)
    ELSE text

(* ------------------------------ the state ------------------------------ *)

VARIABLES
    pc,                \* the statement of main() that runs next
    tag,               \* args.tag: the --tag argument, None when absent
    corrupt,           \* the platforms whose checksum file get.helm.sh serves damaged
    file0,             \* setup.cfg as it was when the run started
    file,              \* setup.cfg on disk
    config,            \* the ConfigUpdater document in memory
    config_version,    \* config['metadata']['version'].value
    config_tag,        \* the tag derived from config_version
    version,           \* the version the URLs are built from
    next_platform,     \* position of the for loop in URL_PATTERNS.items()
    data,              \* platform -> {url, sha256}
    requests,          \* the URLs requests.get was called with, in call order
    responses,         \* what each of those calls got back
    download_scripts,  \* the rendered text
    error,             \* the exception that ended the run, "" when none
    exit_status,       \* the exit status of the process, "" while it runs
    writes             \* how many times setup.cfg was written

vars == << pc, tag, corrupt, file0, file, config, config_version, config_tag, version,
           next_platform, data, requests, responses, download_scripts, error,
           exit_status, writes >>

(* --------------------------- setup.cfg ---------------------------------- *)

\* a document: section name -> option name -> value
EmptyDoc == [s \in {} |-> [o \in {} |-> None]]

\* the value download_scripts holds before the run: lines of an older release
OldScripts == << <<"[helm]">>, <<"url = ", "old">> >>

\* a complete setup.cfg whose metadata version is v (a str, or None for an
\* option without a value)
FullDoc(v) ==
    [s \in {"metadata", "options", "setuptools_download"} |->
        IF s = "metadata"
        THEN [o \in {"name", "version"} |->
                 IF o = "name" THEN Str(<<"helm-binary-py">>) ELSE v]
        ELSE IF s = "options"
        THEN [o \in {"packages"} |-> Str(<<"find:">>)]
        ELSE [o \in {"download_scripts"} |-> OldScripts]]

WithoutSection(doc, name) == [s \in DOMAIN doc \ {name} |-> doc[s]]

WithoutOption(doc, name, option) ==
    [s \in DOMAIN doc |->
        IF s = name THEN [o \in DOMAIN doc[s] \ {option} |-> doc[s][o]] ELSE doc[s]]

\* documents that lack something main() looks up
BrokenDocs ==
    LET doc == FullDoc(Str(<<"3", "-", "3">>))
    IN  { WithoutSection(doc, "metadata"),
          WithoutOption(doc, "metadata", "version"),
          WithoutSection(doc, "setuptools_download"),
          WithoutOption(doc, "setuptools_download", "download_scripts") }

Present(doc) == [exists |-> TRUE, doc |-> doc]
Absent == [exists |-> FALSE, doc |-> EmptyDoc]

Versions == {None} \cup {Str(s) : s \in StringsUpTo(MaxVerLen)}
Tags == {None} \cup {Str(s) : s \in StringsUpTo(MaxTagLen)}

\* setup.cfg when the run starts: missing, complete with any version, or broken
Files ==
    {Absent} \cup {Present(FullDoc(v)) : v \in Versions} \cup {Present(d) : d \in BrokenDocs}

(* --------------------------- get.helm.sh -------------------------------- *)

\* the SHA-256 digest of each platform's archive: 64 hexadecimal characters,
\* one atom each (the first digit tells the platforms apart)
Digests ==
    ("linux-arm" :> "1000000000000000000000000000000000000000000000000000000000000000") @@
    ("linux-arm64" :> "2000000000000000000000000000000000000000000000000000000000000000") @@
    ("linux-riscv64" :> "3000000000000000000000000000000000000000000000000000000000000000") @@
    ("linux-386" :> "4000000000000000000000000000000000000000000000000000000000000000") @@
    ("linux-amd64" :> "5000000000000000000000000000000000000000000000000000000000000000") @@
    ("linux-ppc64le" :> "6000000000000000000000000000000000000000000000000000000000000000") @@
    ("linux-s390x" :> "7000000000000000000000000000000000000000000000000000000000000000") @@
    ("darwin-arm64" :> "8000000000000000000000000000000000000000000000000000000000000000") @@
    ("darwin-amd64" :> "9000000000000000000000000000000000000000000000000000000000000000") @@
    ("windows-arm64" :> "a000000000000000000000000000000000000000000000000000000000000000") @@
    ("windows-amd64" :> "b000000000000000000000000000000000000000000000000000000000000000")

\* a well-formed checksum file: the digest, two spaces, the file name
GoodBody(p) == <<Digests[p], " ", " ", "helm-archive", "\n">>

\* a body served with status 200 that is no checksum file
ErrorPage == <<"N", "o", "t", " ", "f", "o", "u", "n", "d", "\n">>

\* the server serves every checksum file well-formed, or all but one
CorruptSets == {{}} \cup {{p} : p \in PlatformSet}

\* the body the server sends for the checksum file of p
Remote(p) == IF p \in corrupt THEN ErrorPage ELSE GoodBody(p)

ConnectionError == [kind |-> "ConnectionError", status_code |-> 0, text |-> <<>>]
Response(status, text) == [kind |-> "Response", status_code |-> status, text |-> text]

\* what requests.get may come back with for the checksum file of p
Responses(p) ==
    { ConnectionError,
      Response(404, ErrorPage),
      Response(200, <<>>),
      Response(200, Remote(p)) }

(* ------------------------------- main() --------------------------------- *)

NoData == [p \in {} |-> [url |-> <<>>, sha256 |-> <<>>]]

Init ==
    /\ pc = "read_config"
    /\ tag \in Tags
    /\ corrupt \in CorruptSets
    /\ file0 \in Files
    /\ file = file0
    /\ config = EmptyDoc
    /\ config_version = None
    /\ config_tag = <<>>
    /\ version = <<>>
    /\ next_platform = 1
    /\ data = NoData
    /\ requests = <<>>
    /\ responses = <<>>
    /\ download_scripts = <<>>
    /\ error = ""
    /\ exit_status = ""
    /\ writes = 0

\* Raise with the exception caught and logged at the top: the process exits 0
RaiseSwallowed(exception) ==
    /\ error' = exception
    /\ exit_status' = "0"
    /\ pc' = "done"

\* an exception nothing catches: the interpreter prints the trace and exits 1
Raise(exception) ==
    /\ error' = exception
    /\ exit_status' = "1"
    /\ pc' = "done"

\* config = ConfigUpdater(); config.read('setup.cfg')
ReadConfig ==
    /\ pc = "read_config"
    /\ IF ~file.exists
       THEN Raise("FileNotFoundError") /\ UNCHANGED config
       ELSE /\ config' = file.doc
            /\ pc' = "read_version"
            /\ UNCHANGED << error, exit_status >>
    /\ UNCHANGED << tag, corrupt, file0, file, config_version, config_tag, version,
                    next_platform, data, requests, responses, download_scripts, writes >>

\* ReadVersion with the isinstance check left out
ReadVersionUnchecked ==
    /\ pc = "read_version"
    /\ IF "metadata" \notin DOMAIN config \/ "version" \notin DOMAIN config["metadata"]
       THEN Raise("KeyError") /\ UNCHANGED config_version
       ELSE /\ config_version' = config["metadata"]["version"]
            /\ pc' = "resolve"
            /\ UNCHANGED << error, exit_status >>
    /\ UNCHANGED << tag, corrupt, file0, file, config, config_tag, version,
                    next_platform, data, requests, responses, download_scripts, writes >>

\* config_version = config['metadata']['version'].value, and the isinstance check
ReadVersion ==
    /\ pc = "read_version"
    /\ IF "metadata" \notin DOMAIN config \/ "version" \notin DOMAIN config["metadata"]
       THEN Raise("KeyError") /\ UNCHANGED config_version
       ELSE /\ config_version' = config["metadata"]["version"]
            /\ IF ~IsInstanceStr(config_version')
               THEN Raise("ValueError")
               ELSE pc' = "resolve" /\ UNCHANGED << error, exit_status >>
    /\ UNCHANGED << tag, corrupt, file0, file, config, config_tag, version,
                    next_platform, data, requests, responses, download_scripts, writes >>

\* ConfigTag with lstrip('v') in place of removeprefix('v'): every leading v goes
ConfigTagLstrip(cv) ==
    LET other == {i \in 1..Len(cv) : cv[i] # "v"}
        rest == IF other = {} THEN <<>> ELSE SubSeq(cv, Nth(other, 1), Len(cv))
    IN  <<"v">> \o Split(rest, "-")[1]

\* 'v' + config_version.removeprefix('v').split('-')[0]
ConfigTag(cv) == <<"v">> \o Split(RemovePrefix(cv, "v"), "-")[1]

\* tag if tag else config_tag
ChooseVersion(t, ct) == IF Truthy(t) THEN t.s ELSE ct

ResolveVersion ==
    /\ pc = "resolve"
    /\ config_tag' = ConfigTag(config_version.s)
    /\ version' = ChooseVersion(tag, config_tag')
    /\ pc' = "fetch"
    /\ UNCHANGED << tag, corrupt, file0, file, config, config_version, next_platform,
                    data, requests, responses, download_scripts, error, exit_status,
                    writes >>

\* url = url_pattern % version; sha256_url = url + '.sha256sum'
DownloadUrl(p, v) == Format(URL_PATTERNS[p], v)
\* Sha256Url without the suffix: the request goes to the archive itself
Sha256UrlNoSuffix(url) == url

Sha256Url(url) == url \o <<".sha256sum">>

\* get_hash_from_url: what it returns or raises for a response
GetHashFromUrl(response) ==
    IF response.kind = "ConnectionError"
    THEN [raised |-> "ConnectionError", hash |-> <<>>]
    ELSE IF response.status_code >= 400 /\ response.status_code < 600
    THEN [raised |-> "HTTPError", hash |-> <<>>]
    ELSE LET tokens == SplitWs(response.text)
         IN  IF tokens = <<>>
             THEN [raised |-> "IndexError", hash |-> <<>>]
             ELSE [raised |-> "", hash |-> tokens[1]]

\* data[platform] = {'url': url, 'sha256': sha256}
Store(d, p, url, sha256) ==
    [q \in DOMAIN d \cup {p} |->
        IF q = p THEN [url |-> url, sha256 |-> sha256] ELSE d[q]]

\* Fetch with a failed request skipped (try / except: continue) instead of
\* ending the run
FetchSkipFailed ==
    /\ pc = "fetch"
    /\ LET platform == Platforms[next_platform]
           url == DownloadUrl(platform, version)
           sha256_url == Sha256Url(url)
       IN  \E response \in Responses(platform) :
             LET got == GetHashFromUrl(response)
             IN  /\ requests' = Append(requests, sha256_url)
                 /\ responses' = Append(responses, response)
                 /\ data' = IF got.raised # "" THEN data
                            ELSE Store(data, platform, url, got.hash)
                 /\ next_platform' = next_platform + 1
                 /\ pc' = IF next_platform = Len(Platforms) THEN "render" ELSE "fetch"
                 /\ UNCHANGED << error, exit_status >>
    /\ UNCHANGED << tag, corrupt, file0, file, config, config_version, config_tag,
                    version, download_scripts, writes >>

\* one iteration of the loop over URL_PATTERNS.items()
Fetch ==
    /\ pc = "fetch"
    /\ LET platform == Platforms[next_platform]
           url == DownloadUrl(platform, version)
           sha256_url == Sha256Url(url)
       IN  \E response \in Responses(platform) :
             LET got == GetHashFromUrl(response)
             IN  /\ requests' = Append(requests, sha256_url)
                 /\ responses' = Append(responses, response)
                 /\ IF got.raised # ""
                    THEN Raise(got.raised) /\ UNCHANGED << data, next_platform >>
                    ELSE /\ data' = Store(data, platform, url, got.hash)
                         /\ next_platform' = next_platform + 1
                         /\ pc' = IF next_platform = Len(Platforms)
                                  THEN "render" ELSE "fetch"
                         /\ UNCHANGED << error, exit_status >>
    /\ UNCHANGED << tag, corrupt, file0, file, config, config_version, config_tag,
                    version, download_scripts, writes >>

\* the first key the f-string looks up that data does not hold, 0 when none
FirstMissing(d) ==
    LET missing == {i \in 1..Len(TemplateKeys) : TemplateKeys[i] \notin DOMAIN d}
    IN  IF missing = {} THEN 0
        ELSE CHOOSE i \in missing : \A j \in missing : i <= j

\* download_scripts = dedent(f"""...""").strip()
RenderText(d) == Strip(Dedent(FString(d)))

\* Render with the KeyError caught and an empty text rendered instead
RenderSkipMissing ==
    /\ pc = "render"
    /\ download_scripts' = IF FirstMissing(data) # 0 THEN << <<>> >> ELSE RenderText(data)
    /\ pc' = "set_values"
    /\ UNCHANGED << tag, corrupt, file0, file, config, config_version, config_tag,
                    version, next_platform, data, requests, responses, error,
                    exit_status, writes >>

Render ==
    /\ pc = "render"
    /\ IF FirstMissing(data) # 0
       THEN Raise("KeyError") /\ UNCHANGED download_scripts
       ELSE /\ download_scripts' = RenderText(data)
            /\ pc' = "set_values"
            /\ UNCHANGED << error, exit_status >>
    /\ UNCHANGED << tag, corrupt, file0, file, config, config_version, config_tag,
                    version, next_platform, data, requests, responses, writes >>

\* SetOption keeping only the section it was given
SetOptionDropOthers(doc, name, option, lines) ==
    [s \in {name} |->
        [o \in DOMAIN doc[s] |-> IF o = option THEN lines ELSE doc[s][o]]]

\* the document after Option.set_values(lines) on section[option]
SetOption(doc, name, option, lines) ==
    [s \in DOMAIN doc |->
        IF s = name
        THEN [o \in DOMAIN doc[s] |-> IF o = option THEN lines ELSE doc[s][o]]
        ELSE doc[s]]

\* config['setuptools_download']['download_scripts'].set_values(...splitlines())
SetValues ==
    /\ pc = "set_values"
    /\ IF \/ "setuptools_download" \notin DOMAIN config
          \/ "download_scripts" \notin DOMAIN config["setuptools_download"]
       THEN Raise("KeyError") /\ UNCHANGED config
       ELSE /\ config' = SetOption(config, "setuptools_download", "download_scripts",
                                   SplitLines(download_scripts))
            /\ pc' = "update_file"
            /\ UNCHANGED << error, exit_status >>
    /\ UNCHANGED << tag, corrupt, file0, file, config_version, config_tag, version,
                    next_platform, data, requests, responses, download_scripts, writes >>

\* config.update_file()
UpdateFile ==
    /\ pc = "update_file"
    /\ file' = Present(config)
    /\ writes' = writes + 1
    /\ pc' = "return"
    /\ UNCHANGED << tag, corrupt, file0, config, config_version, config_tag, version,
                    next_platform, data, requests, responses, download_scripts, error,
                    exit_status >>

\* return 0, handed to sys.exit
Return ==
    /\ pc = "return"
    /\ exit_status' = "0"
    /\ pc' = "done"
    /\ UNCHANGED << tag, corrupt, file0, file, config, config_version, config_tag,
                    version, next_platform, data, requests, responses, download_scripts,
                    error, writes >>

Next ==
    \/ ReadConfig
    \/ ReadVersion
    \/ ResolveVersion
    \/ Fetch
    \/ Render
    \/ SetValues
    \/ UpdateFile
    \/ Return

Spec == Init /\ [][Next]_vars

(* ---------- the rendering step on its own (lines 73-165) ----------------- *)

\* the mapping a run with every fetch served well-formed ends with
CompleteData(v) ==
    [p \in PlatformSet |-> [url |-> DownloadUrl(p, v), sha256 |-> <<Digests[p]>>]]

\* rendering entered with any part of a platform -> descriptor mapping
InitRender ==
    /\ pc = "render"
    /\ tag = None
    /\ corrupt = {}
    /\ file0 \in {Present(FullDoc(Str(<<"3">>)))}
    /\ file = file0
    /\ config = file0.doc
    /\ config_version = Str(<<"3">>)
    /\ config_tag = <<"v", "3">>
    /\ version = <<"v", "3">>
    /\ next_platform = Len(Platforms) + 1
    /\ \E have \in SUBSET PlatformSet :
          data = [p \in have |-> CompleteData(version)[p]]
    /\ requests = <<>>
    /\ responses = <<>>
    /\ download_scripts = <<>>
    /\ error = ""
    /\ exit_status = ""
    /\ writes = 0

NextRender ==
    \/ Render
    \/ SetValues
    \/ UpdateFile
    \/ Return

SpecRender == InitRender /\ [][NextRender]_vars

(* ------------------------------ the claims ------------------------------ *)

\* line 58 has run: config_tag is assigned there only, and never empty
Resolved == config_tag # <<>>

\* every statement of main() up to the write has run without an exception
Rendered == pc \in {"set_values", "update_file", "return"} \/ (pc = "done" /\ download_scripts # <<>>)

\* the pattern with its %s replaced by v
Substituted(pattern, v) ==
    LET k == CHOOSE k \in 1..Len(pattern) : pattern[k] = "%s"
    IN  SubSeq(pattern, 1, k - 1) \o v \o SubSeq(pattern, k + 1, Len(pattern))

\* the response let get_hash_from_url return
Succeeded(response) ==
    /\ response.kind = "Response"
    /\ response.status_code = 200
    /\ \E i \in 1..Len(response.text) : response.text[i] \notin Whitespace

\* v with one leading 'v' removed and everything from the first '-' on dropped
Core(v) ==
    LET body == IF v # <<>> /\ v[1] = "v" THEN SubSeq(v, 2, Len(v)) ELSE v
        dashes == {i \in 1..Len(body) : body[i] = "-"}
    IN  IF dashes = {} THEN body
        ELSE SubSeq(body, 1, (CHOOSE i \in dashes : \A j \in dashes : i <= j) - 1)

\* C1: without --tag, the version the URLs are built from is 'v' followed by
\* the metadata version of setup.cfg with one leading 'v' removed and
\* everything from the first '-' on dropped.
C1_ConfigTagCanonical ==
    (Resolved /\ tag = None) =>
        version = <<"v">> \o Core(file0.doc["metadata"]["version"].s)

\* a run without --tag on version 'v3-': prefix and suffix both dropped
C1_Witness ==
    /\ Resolved /\ tag = None
    /\ file0.doc["metadata"]["version"].s = <<"v", "3", "-">>
    /\ version = <<"v", "3">>
    /\ requests # <<>>

\* C2: whenever --tag is given, its string is the version of every URL,
\* unchanged, whatever version setup.cfg records.
C2_TagVerbatim ==
    (Resolved /\ tag # None) =>
        /\ version = tag.s
        /\ \A p \in DOMAIN data : data[p].url = Substituted(URL_PATTERNS[p], tag.s)

\* C3: the requests of a run are the checksum URLs of a prefix of the platform
\* list, in list order, one per platform, and every request but the last got
\* a usable answer: nothing is requested after a failure.
C3_RequestsPrefix ==
    /\ Len(requests) <= Len(Platforms)
    /\ Len(responses) = Len(requests)
    /\ \A i \in 1..Len(requests) :
          requests[i] = Sha256Url(DownloadUrl(Platforms[i], version))
    /\ \A i \in 1..(Len(requests) - 1) : Succeeded(responses[i])
    /\ (error \in {"ConnectionError", "HTTPError", "IndexError"}) =>
          /\ requests # <<>>
          /\ ~Succeeded(responses[Len(responses)])

\* the third request failed with an HTTP error status and the run is over
C3_Witness ==
    /\ pc = "done" /\ error = "HTTPError"
    /\ Len(requests) = 3
    /\ requests[3] = Sha256Url(DownloadUrl("linux-riscv64", version))

\* C4: after a successful run setup.cfg holds the sections and options it held
\* before, each with the value it had, except download_scripts of
\* setuptools_download, which holds the rendered lines.
C4_OnlyDownloadScriptsChanges ==
    (exit_status = "0") =>
        /\ file.exists
        /\ DOMAIN file.doc = DOMAIN file0.doc
        /\ \A s \in DOMAIN file0.doc :
              /\ DOMAIN file.doc[s] = DOMAIN file0.doc[s]
              /\ \A o \in DOMAIN file0.doc[s] :
                    IF s = "setuptools_download" /\ o = "download_scripts"
                    THEN file.doc[s][o] = SplitLines(download_scripts)
                    ELSE file.doc[s][o] = file0.doc[s][o]

\* a successful run that has replaced the old download_scripts
C4_Witness ==
    /\ exit_status = "0"
    /\ file.doc["setuptools_download"]["download_scripts"] # OldScripts
    /\ file.doc["metadata"]["version"] = Str(<<"3", "-", "3">>)

\* C5: every stored download URL is the platform's pattern with %s replaced by
\* the version, and every request goes to that URL followed by '.sha256sum'.
C5_UrlsFromPatterns ==
    /\ \A p \in DOMAIN data : data[p].url = Substituted(URL_PATTERNS[p], version)
    /\ \A i \in 1..Len(requests) :
          requests[i] = Substituted(URL_PATTERNS[Platforms[i]], version) \o <<".sha256sum">>

\* linux-amd64 fetched for version v3
C5_Witness ==
    /\ version = <<"v", "3">>
    /\ "linux-amd64" \in DOMAIN data
    /\ data["linux-amd64"].url =
          <<"https://get.helm.sh/helm-", "v", "3", "-", "linux-amd64", ".tar.gz">>
    /\ requests[5] =
          <<"https://get.helm.sh/helm-", "v", "3", "-", "linux-amd64", ".tar.gz", ".sha256sum">>

\* the lines of the rendered text that open a section
Headers(lines) == {i \in 1..Len(lines) : lines[i] \in {<<"[helm]">>, <<"[helm.exe]">>}}

\* the sections of the rendered text: for each header line, the lines that
\* follow it up to the next header
Sections(lines) ==
    LET heads == Headers(lines)
        end(h) == LET later == {i \in heads : i > h}
                  IN  IF later = {} THEN Len(lines)
                      ELSE (CHOOSE i \in later : \A j \in later : i <= j) - 1
    IN  [h \in heads |-> {lines[i] : i \in (h + 1)..end(h)}]

\* the values a section gives to an option
ValuesOf(section, option) ==
    {SubSeq(line, 2, Len(line)) : line \in {l \in section : l # <<>> /\ l[1] = option}}

\* the request made for platform p
RequestFor(p) ==
    CHOOSE i \in 1..Len(requests) :
        requests[i] = Substituted(URL_PATTERNS[p], version) \o <<".sha256sum">>

\* C6: once every fetch has succeeded, the rendered text has one section for
\* each of the 11 platform keys and no other; the section with extract_path
\* '<key>/helm' ('<key>/helm.exe' on windows) has as url that platform's
\* download URL and as sha256 the first token of the body fetched from that
\* platform's checksum URL.
C6_OneSectionPerPlatform ==
    Rendered =>
        LET sections == Sections(SplitLines(download_scripts))
            binary(p) == IF p \in {"windows-arm64", "windows-amd64"}
                         THEN "/helm.exe" ELSE "/helm"
            sectionsOf(p) ==
                {h \in DOMAIN sections :
                    ValuesOf(sections[h], "extract_path = ") = {<<p, binary(p)>>}}
        IN  /\ Cardinality(DOMAIN sections) = Cardinality(PlatformSet)
            /\ Cardinality(PlatformSet) = 11
            /\ \A p \in PlatformSet :
                  /\ Cardinality(sectionsOf(p)) = 1
                  /\ \A h \in sectionsOf(p) :
                        /\ ValuesOf(sections[h], "url = ")
                              = {Substituted(URL_PATTERNS[p], version)}
                        /\ ValuesOf(sections[h], "sha256 = ")
                              = {SplitWs(responses[RequestFor(p)].text)[1]}

\* a finished run whose server answered one platform with a different first token
C6_Witness ==
    /\ exit_status = "0"
    /\ corrupt = {"darwin-arm64"}
    /\ <<"sha256 = ", "N", "o", "t">> \in
          {download_scripts[i] : i \in 1..Len(download_scripts)}
    /\ <<"sha256 = ", Digests["windows-amd64"]>> \in
          {download_scripts[i] : i \in 1..Len(download_scripts)}

\* the metadata version of the setup.cfg the run started with is no str
VersionNotStr ==
    /\ file0.exists
    /\ "metadata" \in DOMAIN file0.doc
    /\ "version" \in DOMAIN file0.doc["metadata"]
    /\ ~IsInstanceStr(file0.doc["metadata"]["version"])

C8_MissingKeyFails ==
    (pc # "render" /\ PlatformSet \ DOMAIN data # {}) =>
        /\ pc = "done"
        /\ error = "KeyError"
        /\ exit_status = "1"
        /\ download_scripts = <<>>
        /\ writes = 0
        /\ file = file0

\* rendering has failed on a mapping that lacks windows-arm64 only
C8_Witness ==
    /\ DOMAIN data = PlatformSet \ {"windows-arm64"}
    /\ pc = "done" /\ error = "KeyError"

\* the number of characters of a text
RECURSIVE TextLen(_)
TextLen(text) == IF text = <<>> THEN 0 ELSE Len(Head(text)) + TextLen(Tail(text))

\* the atoms made of hexadecimal digits only
HexAtoms ==
    {"0", "1", "2", "3", "4", "5", "6", "7", "8", "9", "a", "b", "c", "d", "e", "f",
     "A", "B", "C", "D", "E", "F"} \cup {Digests[p] : p \in PlatformSet}

\* C9: every sha256 stored in the mapping is 64 hexadecimal characters.
C9_Sha256Is64Hex ==
    \A p \in DOMAIN data :
        /\ TextLen(data[p].sha256) = 64
        /\ \A i \in 1..Len(data[p].sha256) : data[p].sha256[i] \in HexAtoms

\* C10: setup.cfg is written at most once, only after all 11 fetches
\* succeeded and the text was rendered; a run that ends in an exception
\* leaves the file as it was and exits non-zero; a run that wrote exits 0.
C10_WriteOnceOnSuccessOnly ==
    /\ writes <= 1
    /\ (file # file0) => writes = 1
    /\ (writes = 1) =>
          /\ Len(requests) = Len(Platforms)
          /\ \A i \in 1..Len(responses) : Succeeded(responses[i])
          /\ DOMAIN data = PlatformSet
          /\ download_scripts = RenderText(data)
          /\ error = ""
    /\ (error # "") =>
          /\ pc = "done"
          /\ file = file0
          /\ writes = 0
          /\ exit_status \notin {"", "0"}
    /\ (pc = "done" /\ writes = 1) => exit_status = "0"

\* every fetch succeeded and the run still failed, at set_values
C10_Witness ==
    /\ pc = "done" /\ error = "KeyError"
    /\ Len(requests) = Len(Platforms)
    /\ download_scripts # <<>>
    /\ file = file0

====
